---- MODULE Spec2Model ----
(***************************************************************************)
(* Model of the Knapsack-Problem-GA repository: the binary cost function   *)
(* abstraction, the Knapsack cost function, the brute-force solver and the *)
(* generational genetic algorithm engine (GA).                             *)
(*                                                                         *)
(* Conventions.  Gene::Out is 0 and Gene::In is 1.  A Chromosome is a      *)
(* sequence of genes; the C++ index i is position i + 1 here.  ranks_ is a *)
(* sequence of chromosome numbers; the C++ rank r is position r + 1.       *)
(* population_ and costs_ are functions over the chromosome numbers        *)
(* 0 .. population_size_ - 1.                                              *)
(***************************************************************************)
EXTENDS Integers, Sequences, FiniteSets, TLC

(***************************************************************************)
(* Bounds of the model.                                                    *)
(***************************************************************************)
MaxPop == 2
MaxTournament == 1
MaxGen == 2

(***************************************************************************)
(* BinaryCostFunction.h                                                    *)
(***************************************************************************)
Out == 0
In == 1
Gene == {Out, In}

RECURSIVE Chromosomes(_)
Chromosomes(n) ==
    IF n = 0 THEN {<<>>}
    ELSE {Append(c, g) : c \in Chromosomes(n - 1), g \in Gene}

AllOut(ch) == \A i \in 1..Len(ch) : ch[i] = Out

NumIn(ch) == Cardinality({i \in 1..Len(ch) : ch[i] = In})

(***************************************************************************)
(* Knapsack.h / Knapsack.cpp.  A Knapsack is the record of its members;    *)
(* a configuration is the pair <<weight, price>>.                          *)
(***************************************************************************)
Knapsack(num_configurations, max_weight, num_items, configurations) ==
    [kind |-> "Knapsack", num_vars |-> num_configurations,
     max_weight_ |-> max_weight, num_items_ |-> num_items,
     configurations_ |-> configurations]

RECURSIVE KnapsackSum(_, _, _, _)
\* The loop of Knapsack::eval over the genes index .. size-1 : the sum of
\* component k (1 = weight, 2 = price) of the configurations of the In genes.
KnapsackSum(cf, chromosome, k, index) ==
    IF index > Len(chromosome) THEN 0
    ELSE (IF chromosome[index] = In THEN cf.configurations_[index][k] ELSE 0)
         + KnapsackSum(cf, chromosome, k, index + 1)

\* The condition with >= in place of >.
KnapsackInfeasibleAtLimit(cf, current_weight, num_items) ==
    current_weight >= cf.max_weight_ \/ num_items >= cf.num_items_

KnapsackInfeasible(cf, current_weight, num_items) ==
    current_weight > cf.max_weight_ \/ num_items > cf.num_items_

KnapsackEval(cf, chromosome) ==
    LET current_weight == KnapsackSum(cf, chromosome, 1, 1)
        cost == KnapsackSum(cf, chromosome, 2, 1)
        num_items == NumIn(chromosome)
    IN  IF KnapsackInfeasible(cf, current_weight, num_items) THEN 0 ELSE cost

(***************************************************************************)
(* A cost function given by its table of values: any other class derived   *)
(* from BinaryCostFunction.                                                *)
(***************************************************************************)
TableCF(n, table) == [kind |-> "Table", num_vars |-> n, table |-> table]

\* The virtual call cf->eval(chromosome).
eval(cf, chromosome) ==
    IF cf.kind = "Knapsack" THEN KnapsackEval(cf, chromosome)
    ELSE cf.table[chromosome]

\* The null pointer.
nullptr == [kind |-> "nullptr", num_vars |-> 0]

(***************************************************************************)
(* The knapsack instances the drivers hand to the engine.                  *)
(***************************************************************************)
\* each item fits alone, the two do not fit together (capacity)
KnapA == Knapsack(2, 4, 2, << <<2, 1>>, <<3, 3>> >>)
\* the last item alone exceeds the capacity
KnapB == Knapsack(2, 4, 2, << <<1, 2>>, <<6, 5>> >>)
\* the only item fits: every chromosome but the empty one is feasible
KnapC == Knapsack(1, 1, 1, << <<1, 1>> >>)
\* the only item does not fit
KnapD == Knapsack(1, 1, 1, << <<2, 1>> >>)

DriverCFs == {KnapA, KnapB, KnapC}
KnapNone == Knapsack(0, 1, 1, <<>>)                     \* no configuration added
ConfigCFs == {KnapC, KnapD, KnapNone}

(***************************************************************************)
(* State.                                                                  *)
(***************************************************************************)
VARIABLES
    \* GA.h, the members of the engine
    chromosome_size_, cf_, population_size_, num_elite_, tournament_size_,
    num_mutations_, population_, ranks_, costs_, best_costs_,
    \* GA::new_population, its argument and the locals of the running call
    num_generations, generation, new_population, rank, parent1, parent2,
    \* GA::mutate_, its local
    mutation_no,
    \* where the driver and the running call stand
    pc,
    \* the last configuration call of the driver with its arguments, and
    \* the exception it threw
    call, thrown,
    \* the value the last query returned
    returned,
    \* history: the chromosomes that were elite when the running generation
    \* started, the chromosome numbers repair_ last repaired, whether
    \* repair_ last wrote outside a chromosome
    elite, repaired, oob_write,
    \* BruteForce.h, the members of the solver
    bf_cf_, best_,
    \* BruteForce::solve, its locals and where the call stands
    permutation, index, bf_pc,
    \* history: the chromosomes the running call of solve handed to eval
    evaluations

ga_members == <<chromosome_size_, cf_, population_size_, num_elite_,
                tournament_size_, num_mutations_, population_, ranks_,
                costs_, best_costs_>>
ga_parameters == <<population_size_, num_elite_, tournament_size_,
                   num_mutations_>>
ga_locals == <<generation, new_population, rank, parent1, parent2,
               mutation_no>>
ga_history == <<elite, repaired, oob_write>>
ga_vars == <<ga_members, num_generations, ga_locals, pc, call, thrown,
             returned, ga_history>>
bf_vars == <<bf_cf_, best_, permutation, index, bf_pc, evaluations>>

vars == <<ga_vars, bf_vars>>

\* The denominator of the mutation rates the driver passes: a rate is the
\* integer r standing for r / RateDen, which a double holds exactly.
RateDen == 2
Rates == -1 .. RateDen + 1

Ids(n) == 0 .. n - 1

NoCall == <<>>
NoException == "none"
NoValue == <<>>

(***************************************************************************)
(* GA::repair_ on one chromosome (GA.cpp 227-245).                         *)
(***************************************************************************)
\* std::find(begin, end, Gene::In): the first position >= begin holding In,
\* Len + 1 (end) when there is none.
FindIn(chromosome, begin) ==
    LET hits == {i \in begin..Len(chromosome) : chromosome[i] = In}
    IN  IF hits = {} THEN Len(chromosome) + 1
        ELSE CHOOSE i \in hits : \A j \in hits : i <= j

\* std::find(rbegin, rend, Gene::Out): the last position <= rbegin holding
\* Out, 0 (rend) when there is none.
FindOutReverse(chromosome, rbegin) ==
    LET hits == {i \in 1..rbegin : chromosome[i] = Out}
    IN  IF hits = {} THEN 0
        ELSE CHOOSE i \in hits : \A j \in hits : i >= j

RECURSIVE RemoveGenes(_, _, _)
\* The first do-while: remove genes from the front until the chromosome is
\* feasible.  An empty chromosome has begin = end and the write is outside.
RemoveGenes(cf, chromosome, begin) ==
    IF begin > Len(chromosome) THEN [chromosome |-> chromosome, oob |-> TRUE]
    ELSE LET removed == [chromosome EXCEPT ![begin] = Out]
             next == FindIn(removed, begin)
         IN  IF eval(cf, removed) = 0 /\ next # Len(removed) + 1
             THEN RemoveGenes(cf, removed, next)
             ELSE [chromosome |-> removed, oob |-> FALSE]

\* repair_ without the revert.
RevertNothing(chromosome, rbegin) == chromosome

\* The statement after the second do-while: revert the last change.
RevertLast(chromosome, rbegin) ==
    IF rbegin # 0 THEN [chromosome EXCEPT ![rbegin] = Out] ELSE chromosome

RECURSIVE AddGenes(_, _, _)
\* The second do-while and the revert: add genes from the back until the
\* chromosome is no longer feasible.  When no Out gene is left, find returns
\* rend and the write through it is outside the chromosome.
AddGenes(cf, chromosome, rbegin) ==
    LET found == FindOutReverse(chromosome, rbegin)
    IN  IF found = 0
        THEN [chromosome |-> RevertLast(chromosome, found), oob |-> TRUE]
        ELSE LET added == [chromosome EXCEPT ![found] = In]
             IN  IF eval(cf, added) # 0
                 THEN AddGenes(cf, added, found)
                 ELSE [chromosome |-> RevertLast(added, found), oob |-> FALSE]

\* The body of the if of repair_ for one chromosome.
RepairChromosome(cf, chromosome) ==
    LET front == RemoveGenes(cf, chromosome, 1)
        back == AddGenes(cf, front.chromosome, Len(front.chromosome))
    IN  [chromosome |-> back.chromosome, oob |-> front.oob \/ back.oob]

\* A repair_ that selects no chromosome.
NeedsRepairNever(costs, chromosome_no) == FALSE

\* The condition of repair_ that selects a chromosome.
NeedsRepair(costs, chromosome_no) == costs[chromosome_no] = 0

(***************************************************************************)
(* GA::calculate_costs_, GA::repair_ over the population.                  *)
(***************************************************************************)
\* The loop of calculate_costs_(num_elite): the chromosomes at ranks
\* num_elite .. population_size_ - 1 get their cost from the cost function.
EvaluatedCosts(cf, population, ranks, costs, num_elite) ==
    [chromosome_no \in DOMAIN costs |->
        IF \E r \in (num_elite + 1)..Len(ranks) : ranks[r] = chromosome_no
        THEN eval(cf, population[chromosome_no])
        ELSE costs[chromosome_no]]

\* The comparator with the order reversed.
RankBeforeAscending(costs, i, j) == costs[i] < costs[j]

\* The comparator of the std::sort of calculate_costs_.
RankBefore(costs, i, j) == costs[i] > costs[j]

\* The outcomes of the std::sort of calculate_costs_: the rankings no pair
\* of which is out of order.  std::sort leaves the order of equal elements
\* unspecified.
SortedRanks(costs) ==
    LET n == Cardinality(DOMAIN costs)
        orders == {[r \in 1..n |-> order[r - 1]] :
                      order \in Permutations(DOMAIN costs)}
    IN  {ranks \in orders :
            \A r \in 1..(n - 1) :
                ~RankBefore(costs, ranks[r + 1], ranks[r])}

\* The loop of repair_ : every chromosome whose recorded cost is 0 is
\* repaired; the chromosomes are independent of each other.
RepairedPopulation(cf, population, costs) ==
    [chromosome_no \in DOMAIN population |->
        IF NeedsRepair(costs, chromosome_no)
        THEN RepairChromosome(cf, population[chromosome_no]).chromosome
        ELSE population[chromosome_no]]

RepairedSet(costs) == {i \in DOMAIN costs : NeedsRepair(costs, i)}

RepairWroteOutside(cf, population, costs) ==
    \E i \in RepairedSet(costs) : RepairChromosome(cf, population[i]).oob

\* The costs after a repair_ that does not recalculate them.
CostsNotRecalculated(cf, population, ranks, costs) == costs

\* The costs after repair_: recalculated for every chromosome when one was
\* repaired (repair_flag), left as they are otherwise.
CostsAfterRepair(cf, population, ranks, costs) ==
    IF RepairedSet(costs) # {}
    THEN EvaluatedCosts(cf, RepairedPopulation(cf, population, costs),
                        ranks, costs, 0)
    ELSE costs

(***************************************************************************)
(* Initial state: a default-constructed GA and BruteForce.                 *)
(***************************************************************************)
GAInit ==
    /\ chromosome_size_ = 0
    /\ cf_ = nullptr
    /\ population_size_ = 0
    /\ num_elite_ = 0
    /\ tournament_size_ = 0
    /\ num_mutations_ = 0
    /\ population_ = <<>>
    /\ ranks_ = <<>>
    /\ costs_ = <<>>
    /\ best_costs_ = <<>>
    /\ num_generations = 0
    /\ generation = 0
    /\ new_population = <<>>
    /\ rank = 0
    /\ parent1 = 0
    /\ parent2 = 0
    /\ mutation_no = 0
    /\ pc = "constructed"
    /\ call = NoCall
    /\ thrown = NoException
    /\ returned = NoValue
    /\ elite = <<>>
    /\ repaired = {}
    /\ oob_write = FALSE

BFInit ==
    /\ bf_cf_ = nullptr
    /\ best_ = <<0, <<>> >>
    /\ permutation = <<>>
    /\ index = 0
    /\ bf_pc = "constructed"
    /\ evaluations = <<>>

Init == GAInit /\ BFInit

\* The locals of a call that is not running, and the history of one.
ResetLocals ==
    /\ generation' = 0
    /\ new_population' = <<>>
    /\ rank' = 0
    /\ parent1' = 0
    /\ parent2' = 0
    /\ mutation_no' = 0
    /\ elite' = <<>>

\* The process has been aborted: nothing of the engine is left.  oob_write
\* and returned are set by the action that aborts.
Crash ==
    /\ pc' = "crashed"
    /\ chromosome_size_' = 0
    /\ cf_' = nullptr
    /\ population_size_' = 0
    /\ num_elite_' = 0
    /\ tournament_size_' = 0
    /\ num_mutations_' = 0
    /\ population_' = <<>>
    /\ ranks_' = <<>>
    /\ costs_' = <<>>
    /\ best_costs_' = <<>>
    /\ num_generations' = 0
    /\ ResetLocals
    /\ call' = NoCall
    /\ thrown' = NoException
    /\ repaired' = {}
    /\ UNCHANGED bf_vars

\* The driver is between two calls of the engine.
Idle == pc \in {"constructed", "cf_set", "configured", "evolved"}

(***************************************************************************)
(* GA::set_cf (GA.cpp 17-23).  No driver of the repository catches an      *)
(* exception: the process ends in std::terminate with the engine as the    *)
(* throw left it.                                                          *)
(***************************************************************************)
set_cf(cf) ==
    /\ Idle
    /\ chromosome_size_' = cf.num_vars
    /\ call' = <<"set_cf", cf.num_vars>>
    /\ IF cf.num_vars = 0
       THEN /\ thrown' = "invalid_argument"
            /\ pc' = "terminated"
            /\ UNCHANGED cf_
       ELSE /\ thrown' = NoException
            /\ cf_' = cf
            /\ pc' = "cf_set"
    /\ returned' = NoValue
    /\ UNCHANGED <<ga_parameters, population_, ranks_, costs_, best_costs_,
                   num_generations, ga_locals, ga_history, bf_vars>>

(***************************************************************************)
(* GA::set_parameters (GA.cpp 28-54) with GA::rand_init_ (GA.cpp 128-135)  *)
(***************************************************************************)
\* The condition with num_elite > pop_size in place of >=.
ParametersInvalidLax(pop_size, num_elite, t_size, mutation_rate) ==
    \/ pop_size = 0
    \/ num_elite > pop_size
    \/ t_size = 0
    \/ mutation_rate > RateDen
    \/ mutation_rate < 0

\* The condition of the second throw.
ParametersInvalid(pop_size, num_elite, t_size, mutation_rate) ==
    \/ pop_size = 0
    \/ num_elite >= pop_size
    \/ t_size = 0
    \/ mutation_rate > RateDen
    \/ mutation_rate < 0

\* static_cast<std::size_t>(mutation_rate * population_size_ * num_vars)
NumMutations(mutation_rate, pop_size, num_vars) ==
    (mutation_rate * pop_size * num_vars) \div RateDen

\* The history without the clear.
KeptBestCosts(best_costs) == best_costs

\* best_costs_.clear()
ClearedBestCosts(best_costs) == <<>>

\* The chromosomes rand_init_ can draw: every gene is rng_(1).
RandomPopulations(pop_size) ==
    [Ids(pop_size) -> Chromosomes(chromosome_size_)]

\* call records the arguments and, for the history, how many best costs and
\* chromosomes the engine held when the call was made.
set_parameters(pop_size, num_elite, t_size, mutation_rate) ==
    /\ Idle
    /\ IF cf_ = nullptr
          \/ ParametersInvalid(pop_size, num_elite, t_size, mutation_rate)
       THEN /\ thrown' = "invalid_argument"
            /\ pc' = "terminated"
            /\ call' = <<"set_parameters", pop_size, num_elite, t_size,
                         mutation_rate, Len(best_costs_),
                         population_size_>>
            /\ returned' = NoValue
            /\ UNCHANGED <<ga_members, num_generations, ga_locals,
                           ga_history, bf_vars>>
       ELSE \E genes \in RandomPopulations(pop_size) :
              LET iota == [r \in 1..pop_size |-> r - 1]
                  none == [i \in Ids(pop_size) |-> 0]
                  costs == EvaluatedCosts(cf_, genes, iota, none, 0)
                  outside == RepairWroteOutside(cf_, genes, costs)
              IN  \/ /\ thrown' = NoException
                     /\ call' = <<"set_parameters", pop_size, num_elite,
                                  t_size, mutation_rate, Len(best_costs_),
                         population_size_>>
                     /\ population_size_' = pop_size
                     /\ num_elite_' = num_elite
                     /\ tournament_size_' = t_size
                     /\ num_mutations_' =
                          NumMutations(mutation_rate, pop_size, cf_.num_vars)
                     /\ best_costs_' = ClearedBestCosts(best_costs_)
                     /\ population_' = RepairedPopulation(cf_, genes, costs)
                     /\ costs_' = CostsAfterRepair(cf_, genes, iota, costs)
                     /\ ranks_' \in SortedRanks(costs_')
                     /\ repaired' = RepairedSet(costs)
                     /\ oob_write' = outside
                     /\ pc' = "configured"
                     /\ returned' = NoValue
                     /\ num_generations' = 0
                     /\ ResetLocals
                     /\ UNCHANGED <<chromosome_size_, cf_, bf_vars>>
                  \/ /\ outside
                     /\ oob_write' = TRUE
                     /\ returned' = NoValue
                     /\ Crash

(***************************************************************************)
(* GA::select_ (GA.cpp 152-160), GA::cross_ (GA.cpp 181-196)               *)
(***************************************************************************)
\* The draws of one tournament: tournament_size_ values of
\* rng_(population_size_ - 1).
Tournaments == [1..tournament_size_ -> Ids(population_size_)]

RECURSIVE MaxElementLast(_, _, _, _)
\* A scan that keeps the last of the largest elements.
MaxElementLast(participants, costs, largest, it) ==
    IF it > Len(participants) THEN participants[largest]
    ELSE IF costs[participants[largest]] <= costs[participants[it]]
         THEN MaxElementLast(participants, costs, it, it + 1)
         ELSE MaxElementLast(participants, costs, largest, it + 1)

RECURSIVE MaxElement(_, _, _, _)
\* std::max_element with the comparator cost_(i) < cost_(j): the scan from
\* position it on, largest being the position of the largest so far.
MaxElement(participants, costs, largest, it) ==
    IF it > Len(participants) THEN participants[largest]
    ELSE IF costs[participants[largest]] < costs[participants[it]]
         THEN MaxElement(participants, costs, it, it + 1)
         ELSE MaxElement(participants, costs, largest, it + 1)

select_(participants) == MaxElement(participants, costs_, 1, 2)

\* A midpoint that rounds down.
MidRoundedDown == chromosome_size_ \div 2

\* const auto mid = (chromosome_size_ + 2 - 1) / 2
Mid == (chromosome_size_ + 2 - 1) \div 2

\* cross_ with the parents swapped on equal costs as well.
cross_swapping_ties(p1_chromosome_no, p2_chromosome_no) ==
    LET swap == costs_[p2_chromosome_no] >= costs_[p1_chromosome_no]
        p1 == population_[IF swap THEN p2_chromosome_no ELSE p1_chromosome_no]
        p2 == population_[IF swap THEN p1_chromosome_no ELSE p2_chromosome_no]
    IN  SubSeq(p1, 1, Mid) \o SubSeq(p2, Mid + 1, Len(p2))

\* cross_ on the chromosomes of the buffer being filled.
cross_in_place(p1_chromosome_no, p2_chromosome_no) ==
    LET swap == costs_[p2_chromosome_no] > costs_[p1_chromosome_no]
        p1 == new_population[IF swap THEN p2_chromosome_no
                             ELSE p1_chromosome_no]
        p2 == new_population[IF swap THEN p1_chromosome_no
                             ELSE p2_chromosome_no]
    IN  SubSeq(p1, 1, Mid) \o SubSeq(p2, Mid + 1, Len(p2))

cross_(p1_chromosome_no, p2_chromosome_no) ==
    LET swap == costs_[p2_chromosome_no] > costs_[p1_chromosome_no]
        p1 == population_[IF swap THEN p2_chromosome_no ELSE p1_chromosome_no]
        p2 == population_[IF swap THEN p1_chromosome_no ELSE p2_chromosome_no]
    IN  SubSeq(p1, 1, Mid) \o SubSeq(p2, Mid + 1, Len(p2))

(***************************************************************************)
(* GA::new_population (GA.cpp 57-86), step by step                         *)
(***************************************************************************)
\* The call: best_costs_.reserve(num_generations); generation = 0.
new_population_call(g) ==
    /\ pc = "configured"
    /\ num_generations' = g
    /\ generation' = 0
    /\ pc' = "while"
    /\ call' = NoCall
    /\ thrown' = NoException
    /\ returned' = NoValue
    /\ UNCHANGED <<ga_members, new_population, rank, parent1, parent2,
                   mutation_no, ga_history, bf_vars>>

\* store_best_cost_() (GA.h 91)
StoredBestCosts == Append(best_costs_, costs_[ranks_[1]])

\* The chromosomes at the ranks 0 .. num_elite_ - 1, by chromosome number.
EliteNow ==
    [chromosome_no \in {ranks_[r] : r \in 1..num_elite_} |->
        population_[chromosome_no]]

\* The first rank the for loop replaces.
FirstReplacedRank == num_elite_

\* while (++generation <= num_generations): one more generation starts with
\* store_best_cost_ and the copy of the population, or the call returns.
while_test ==
    /\ pc = "while"
    /\ IF generation + 1 <= num_generations
       THEN /\ generation' = generation + 1
            /\ best_costs_' = StoredBestCosts
            /\ new_population' = population_
            /\ rank' = FirstReplacedRank
            /\ elite' = EliteNow
            /\ pc' = "for"
            /\ UNCHANGED <<parent1, parent2, mutation_no>>
       ELSE /\ pc' = "evolved"
            /\ ResetLocals
            /\ UNCHANGED best_costs_
    /\ repaired' = {}
    /\ oob_write' = FALSE
    /\ UNCHANGED <<chromosome_size_, cf_, ga_parameters, population_, ranks_,
                   costs_, num_generations, call, thrown, returned, bf_vars>>

\* for (rank = num_elite_; rank < population_size_; ++rank): the two
\* select_ calls of the body, or the swap that ends the loop.  After the
\* swap the local holds the old population, which nothing reads any more:
\* it is modelled as already destroyed.
for_test ==
    /\ pc = "for"
    /\ IF rank < population_size_
       THEN /\ \E first, second \in Tournaments :
                 /\ parent1' = select_(first)
                 /\ parent2' = select_(second)
            /\ pc' = "no_clones"
            /\ UNCHANGED <<population_, new_population, mutation_no>>
       ELSE /\ population_' = new_population
            /\ new_population' = <<>>
            /\ mutation_no' = 0
            /\ pc' = "mutate_"
            /\ UNCHANGED <<parent1, parent2>>
    /\ UNCHANGED <<chromosome_size_, cf_, ga_parameters, ranks_, costs_,
                   best_costs_, num_generations, generation, rank, call,
                   thrown, returned, ga_history, bf_vars>>

\* The body of the for loop without the while loop: clones are allowed.
clones_allowed ==
    /\ pc = "no_clones"
    /\ new_population' =
           [new_population EXCEPT ![ranks_[rank + 1]] =
                                      cross_(parent1, parent2)]
    /\ rank' = rank + 1
    /\ parent1' = 0
    /\ parent2' = 0
    /\ pc' = "for"
    /\ UNCHANGED <<ga_members, num_generations, generation, mutation_no,
                   call, thrown, returned, ga_history, bf_vars>>

\* while (parent1 == parent2) parent2 = select_(); then the child replaces
\* the chromosome at the rank in the new population, and the parents go out
\* of scope with the body of the for loop.
no_clones ==
    /\ pc = "no_clones"
    /\ IF parent1 = parent2
       THEN /\ \E again \in Tournaments : parent2' = select_(again)
            /\ UNCHANGED <<new_population, rank, parent1, pc>>
       ELSE /\ new_population' =
                   [new_population EXCEPT ![ranks_[rank + 1]] =
                                              cross_(parent1, parent2)]
            /\ rank' = rank + 1
            /\ parent1' = 0
            /\ parent2' = 0
            /\ pc' = "for"
    /\ UNCHANGED <<ga_members, num_generations, generation, mutation_no,
                   call, thrown, returned, ga_history, bf_vars>>

(***************************************************************************)
(* GA::mutate_ (GA.cpp 202-215)                                            *)
(***************************************************************************)
\* The condition of the while loop of mutate_.
MutateAgain(mutation) == mutation <= num_mutations_

\* mutate_ without the test of the rank.
MutableAnyRank(rank_to_mutate) == TRUE

\* The condition of the if of mutate_: the drawn rank is not an elite rank.
Mutable(rank_to_mutate) == rank_to_mutate >= num_elite_

\* current_gene = (current_gene == Gene::Out) ? Gene::In : Gene::Out
Flip(chromosome, gene) ==
    [chromosome EXCEPT ![gene + 1] = IF @ = Out THEN In ELSE Out]

\* One iteration of the while loop, or its exit.  mutation_no counts the
\* flips.  A draw of an elite rank changes nothing.
mutate_ ==
    /\ pc = "mutate_"
    /\ IF MutateAgain(mutation_no)
       THEN /\ \E rank_to_mutate \in Ids(population_size_),
                  gene \in 0..(chromosome_size_ - 1) :
                 IF Mutable(rank_to_mutate)
                 THEN /\ population_' =
                           [population_ EXCEPT ![ranks_[rank_to_mutate + 1]] =
                                                   Flip(@, gene)]
                      /\ mutation_no' = mutation_no + 1
                 ELSE UNCHANGED <<population_, mutation_no>>
            /\ UNCHANGED pc
       ELSE /\ pc' = "calculate_costs_"
            /\ UNCHANGED <<population_, mutation_no>>
    /\ UNCHANGED <<chromosome_size_, cf_, ga_parameters, ranks_, costs_,
                   best_costs_, num_generations, generation, new_population,
                   rank, parent1, parent2, call, thrown, returned, ga_history,
                   bf_vars>>

(***************************************************************************)
(* GA::calculate_costs_ (GA.cpp 138-147) and GA::repair_ (GA.cpp 222-253)  *)
(* as new_population calls them                                            *)
(***************************************************************************)
\* calculate_costs_(num_elite_): the loop and the sort.
calculate_costs_ ==
    /\ pc = "calculate_costs_"
    /\ costs_' = EvaluatedCosts(cf_, population_, ranks_, costs_, num_elite_)
    /\ ranks_' \in SortedRanks(costs_')
    /\ pc' = "repair_"
    /\ UNCHANGED <<chromosome_size_, cf_, ga_parameters, population_,
                   best_costs_, num_generations, ga_locals, call, thrown,
                   returned, ga_history, bf_vars>>

\* repair_(): the loop and, when a chromosome was repaired, the call of
\* calculate_costs_() with its sort.  A write outside a chromosome is
\* undefined behaviour: the call goes on as if nothing had happened, or the
\* process is aborted.
repair_ ==
    /\ pc = "repair_"
    /\ LET outside == RepairWroteOutside(cf_, population_, costs_)
       IN  \/ /\ population_' = RepairedPopulation(cf_, population_, costs_)
              /\ costs_' = CostsAfterRepair(cf_, population_, ranks_, costs_)
              /\ ranks_' \in IF RepairedSet(costs_) # {}
                             THEN SortedRanks(costs_')
                             ELSE {ranks_}
              /\ repaired' = RepairedSet(costs_)
              /\ oob_write' = outside
              /\ mutation_no' = 0
              /\ pc' = "while"
              /\ UNCHANGED <<chromosome_size_, cf_, ga_parameters,
                             best_costs_, num_generations, generation,
                             new_population, rank, parent1, parent2, call,
                             thrown, returned, elite, bf_vars>>
           \/ /\ outside
              /\ oob_write' = TRUE
              /\ returned' = NoValue
              /\ Crash

(***************************************************************************)
(* GA::get_best_cost (GA.h 37), GA::get_best_chromosome (GA.h 40)          *)
(***************************************************************************)
\* The largest value the read of back() of an empty vector is given here.
MaxGarbage == 2

\* return best_costs_.back().  On an empty vector back() is undefined
\* behaviour: the read yields any value, or the process is aborted.
get_best_cost ==
    /\ pc = "evolved"
    /\ IF best_costs_ # <<>>
       THEN /\ returned' = <<"get_best_cost", best_costs_[Len(best_costs_)]>>
            /\ pc' = "queried"
            /\ UNCHANGED <<ga_members, num_generations, ga_locals, call,
                           thrown, ga_history, bf_vars>>
       ELSE \/ /\ \E garbage \in 0..MaxGarbage :
                    returned' = <<"get_best_cost", garbage>>
               /\ pc' = "queried"
               /\ UNCHANGED <<ga_members, num_generations, ga_locals, call,
                              thrown, ga_history, bf_vars>>
            \/ /\ returned' = <<"get_best_cost">>
               /\ UNCHANGED oob_write
               /\ Crash

\* return population_.at(chromosome_at_rank_(0))
get_best_chromosome == population_[ranks_[1]]

(***************************************************************************)
(* GA::get_solution_generation (GA.cpp 88-91)                              *)
(***************************************************************************)
\* The last position of the sequence that holds the value.
FindLast(seq, value) ==
    LET hits == {i \in 1..Len(seq) : seq[i] = value}
    IN  IF hits = {} THEN Len(seq) + 1
        ELSE CHOOSE i \in hits : \A j \in hits : j <= i

\* std::find(cbegin, cend, value): the first position that holds the value,
\* Len + 1 (cend) when there is none.
FindFirst(seq, value) ==
    LET hits == {i \in 1..Len(seq) : seq[i] = value}
    IN  IF hits = {} THEN Len(seq) + 1
        ELSE CHOOSE i \in hits : \A j \in hits : i <= j

\* std::distance(cbegin, std::find(cbegin, cend, get_best_cost())).  On an
\* empty history get_best_cost() is undefined behaviour: the process is
\* aborted, or the read yields some value and find returns cend.
get_solution_generation ==
    /\ pc = "evolved"
    /\ \/ /\ returned' =
                <<"get_solution_generation",
                  FindFirst(best_costs_,
                            IF best_costs_ # <<>>
                            THEN best_costs_[Len(best_costs_)]
                            ELSE 0) - 1>>
          /\ pc' = "queried"
          /\ UNCHANGED <<ga_members, num_generations, ga_locals, call,
                         thrown, ga_history, bf_vars>>
       \/ /\ best_costs_ = <<>>
          /\ returned' = <<"get_solution_generation">>
          /\ UNCHANGED oob_write
          /\ Crash

(***************************************************************************)
(* The engine as ProjectTester::solve_ drives it (ProjectTester.cpp        *)
(* 116-130): set_cf, set_parameters, new_population, get_best_cost.        *)
(***************************************************************************)
Next ==
    \/ /\ pc = "constructed"
       /\ \E cf \in DriverCFs : set_cf(cf)
    \/ /\ pc = "cf_set"
       /\ \E pop_size, num_elite \in 0..MaxPop, t_size \in 0..MaxTournament,
            mutation_rate \in Rates :
            set_parameters(pop_size, num_elite, t_size, mutation_rate)
    \/ /\ pc = "configured"
       /\ \E g \in 0..MaxGen : new_population_call(g)
    \/ while_test
    \/ for_test
    \/ no_clones
    \/ mutate_
    \/ calculate_costs_
    \/ repair_
    \/ get_best_cost
    \/ get_solution_generation

Spec == Init /\ [][Next]_vars

\* The retry of no_clones draws a second parent that differs from the first.
DistinctParents == no_clones /\ pc' = "for"

\* The same under the fairness of a running process with fair random draws:
\* a step that can be taken is taken, and a draw that is possible again and
\* again comes up.
FairSpec == Init /\ [][Next]_vars /\ WF_vars(Next) /\ SF_vars(DistinctParents)

(***************************************************************************)
(* set_parameters any number of times, with and without a cost function,   *)
(* runs in between; set_cf before the first of them.  A set_parameters that *)
(* follows a set_parameters is the one that follows new_population(0),     *)
(* which leaves every member as it is.                                     *)
(***************************************************************************)
NextConfig ==
    \/ /\ pc \in {"constructed", "cf_set"}
       /\ \E cf \in ConfigCFs : set_cf(cf)
    \/ /\ pc \in {"constructed", "cf_set", "evolved"}
       /\ \E pop_size, num_elite \in 0..MaxPop, t_size \in 0..MaxTournament,
            mutation_rate \in Rates :
            set_parameters(pop_size, num_elite, t_size, mutation_rate)
    \/ /\ pc = "configured"
       /\ \E g \in 0..MaxGen : new_population_call(g)
    \/ while_test
    \/ for_test
    \/ no_clones
    \/ mutate_
    \/ calculate_costs_
    \/ repair_

SpecConfig == Init /\ [][NextConfig]_vars

(***************************************************************************)
(* Properties of a run (Spec, FairSpec)                                    *)
(***************************************************************************)
\* A generation has just been completed.
GenerationCompleted == pc = "while" /\ generation >= 1

\* C1: at the end of every generation, every chromosome that was at a rank
\* below num_elite_ when the generation started is gene for gene the
\* chromosome it was then.
C1_ElitePreserved ==
    GenerationCompleted =>
        \A chromosome_no \in DOMAIN elite :
            population_[chromosome_no] = elite[chromosome_no]

\* A generation ends with an elite chromosome that went through mutate_,
\* calculate_costs_ and the loop of repair_ (its recorded cost is 0).
C1_Witness ==
    /\ GenerationCompleted
    /\ num_mutations_ >= 1
    /\ \E chromosome_no \in DOMAIN elite : chromosome_no \in repaired

\* C2: after set_parameters and new_population(g), get_best_cost returns the
\* cost of get_best_chromosome, the chromosome at rank 0 of the final
\* population.
C2_BestCostIsCostOfBestChromosome ==
    (pc = "queried" /\ returned[1] = "get_best_cost") =>
        returned[2] = eval(cf_, get_best_chromosome)

\* C3: after set_parameters and one new_population(g), best_costs_ has
\* g + 1 entries.
C3_HistoryLength ==
    pc = "evolved" => Len(best_costs_) = num_generations + 1

C6_RanksSorted ==
    pc \in {"configured", "while", "evolved", "queried"} =>
        /\ Len(ranks_) = population_size_
        /\ \A chromosome_no \in Ids(population_size_) :
              Cardinality({r \in 1..Len(ranks_) :
                              ranks_[r] = chromosome_no}) = 1
        /\ \A r \in 1..(Len(ranks_) - 1) :
              costs_[ranks_[r]] >= costs_[ranks_[r + 1]]

\* A generation ends with two chromosomes of different costs in the ranking.
C6_Witness ==
    /\ GenerationCompleted
    /\ population_size_ >= 2
    /\ costs_[ranks_[1]] > costs_[ranks_[population_size_]]

\* C7: a call of new_population with parameters set_parameters accepted
\* eventually returns (or the process has been aborted by then).
C7_Terminates ==
    (pc = "while") ~> (pc \in {"evolved", "crashed"})

(***************************************************************************)
(* Properties of set_parameters (SpecConfig)                               *)
(***************************************************************************)
\* The last call of the engine was set_parameters and it returned or threw.
SetParametersCalled == call # NoCall /\ call[1] = "set_parameters"

\* C8: set_parameters throws exactly when no cost function is set, or
\* pop_size = 0, or num_elite >= pop_size, or t_size = 0, or mutation_rate is
\* outside [0, 1] (0 .. RateDen in units of 1/RateDen); and a throw leaves
\* the parameters, the population, the costs, the ranking and the history
\* as they were.
C8_ThrowsExactlyWhenInvalid ==
    /\ [](SetParametersCalled =>
            (thrown = "invalid_argument"
               <=> \/ cf_ = nullptr
                   \/ call[2] = 0
                   \/ call[3] >= call[2]
                   \/ call[4] = 0
                   \/ call[5] < 0
                   \/ call[5] > RateDen))
    /\ [][thrown' = "invalid_argument" /\ call'[1] = "set_parameters" =>
            UNCHANGED <<ga_parameters, population_, costs_, ranks_,
                        best_costs_>>]_vars

\* set_parameters threw for its arguments on an engine that held a
\* population and a history.
C8_Witness ==
    /\ SetParametersCalled
    /\ thrown = "invalid_argument"
    /\ cf_ # nullptr
    /\ best_costs_ # <<>>
    /\ population_size_ >= 1

\* C9: after every set_parameters that returns, the population is exactly
\* pop_size chromosomes of chromosome_size_ genes, costs_ holds the cost of
\* each of them and of nothing else, ranks_ ranks exactly them, and
\* best_costs_ is empty.
C9_FullReset ==
    (SetParametersCalled /\ pc = "configured") =>
        /\ population_size_ = call[2]
        /\ DOMAIN population_ = Ids(population_size_)
        /\ \A chromosome_no \in DOMAIN population_ :
              population_[chromosome_no] \in Chromosomes(chromosome_size_)
        /\ DOMAIN costs_ = Ids(population_size_)
        /\ \A chromosome_no \in DOMAIN costs_ :
              costs_[chromosome_no] = eval(cf_, population_[chromosome_no])
        /\ Len(ranks_) = population_size_
        /\ {ranks_[r] : r \in 1..Len(ranks_)} = Ids(population_size_)
        /\ best_costs_ = <<>>

\* set_parameters returned on an engine that held a history and a larger
\* population.
C9_Witness ==
    /\ SetParametersCalled
    /\ pc = "configured"
    /\ call[6] >= 1
    /\ call[7] > population_size_

(***************************************************************************)
(* GA::repair_ on every knapsack instance of a bounded family: the state   *)
(* after set_cf, then set_parameters with one chromosome, whose rand_init_ *)
(* draws every gene pattern, evaluates it and repairs it.                  *)
(***************************************************************************)
MaxVars == 4
MaxWeight == 2
MaxCapacity == 4

\* The instances the constructor and add_config build, with weights from 1
\* as Knapsack::random_configs and the handout instances have them.
\* repair_ sees a cost only as zero or not: every price is 1.
RepairInstances ==
    UNION {{Knapsack(n, max_weight, num_items, configurations) :
               max_weight \in 0..MaxCapacity,
               num_items \in 1..n,
               configurations \in [1..n -> (1..MaxWeight) \X {1}]} :
           n \in 1..MaxVars}

InitRepair ==
    /\ \E cf \in RepairInstances :
          /\ cf_ = cf
          /\ chromosome_size_ = cf.num_vars
          /\ call = <<"set_cf", cf.num_vars>>
    /\ pc = "cf_set"
    /\ population_size_ = 0
    /\ num_elite_ = 0
    /\ tournament_size_ = 0
    /\ num_mutations_ = 0
    /\ population_ = <<>>
    /\ ranks_ = <<>>
    /\ costs_ = <<>>
    /\ best_costs_ = <<>>
    /\ num_generations = 0
    /\ generation = 0
    /\ new_population = <<>>
    /\ rank = 0
    /\ parent1 = 0
    /\ parent2 = 0
    /\ mutation_no = 0
    /\ thrown = NoException
    /\ returned = NoValue
    /\ elite = <<>>
    /\ repaired = {}
    /\ oob_write = FALSE
    /\ BFInit

NextRepair == pc = "cf_set" /\ set_parameters(1, 0, 1, 0)

SpecRepair == InitRepair /\ [][NextRepair]_vars

\* C5: after repair_, every chromosome whose recorded cost was 0 is all Out
\* or has a cost other than 0.
C5_RepairPostcondition ==
    \A chromosome_no \in repaired :
        \/ AllOut(population_[chromosome_no])
        \/ eval(cf_, population_[chromosome_no]) # 0

\* repair_ removed genes from the front of a chromosome and added one back
\* from the other end.
C5_Witness ==
    /\ pc = "configured"
    /\ chromosome_size_ >= 3
    /\ 0 \in repaired
    /\ ~oob_write
    /\ population_[0][1] = Out
    /\ population_[0][chromosome_size_] = In
    /\ NumIn(population_[0]) < chromosome_size_ - 1

\* C17: repair_ writes only inside the chromosome it repairs.
C17_RepairWritesInside == ~oob_write

(***************************************************************************)
(* BruteForce (BruteForce.cpp 8-31)                                        *)
(***************************************************************************)
\* Chromosome(n): n genes, value-initialised to Out.
EmptyChromosome(n) == [i \in 1..n |-> Out]

\* std::reverse of the positions from .. Len.
ReverseFrom(seq, from) ==
    [i \in 1..Len(seq) |->
        IF i < from THEN seq[i] ELSE seq[Len(seq) + from - i]]

\* std::next_permutation: the next arrangement in lexicographic order and
\* true, or the first arrangement and false when seq is the last one.
NextPermutation(seq) ==
    LET ascents == {i \in 1..(Len(seq) - 1) : seq[i] < seq[i + 1]}
    IN  IF ascents = {}
        THEN [permutation |-> ReverseFrom(seq, 1), more |-> FALSE]
        ELSE LET i == CHOOSE a \in ascents : \A b \in ascents : b <= a
                 j == CHOOSE a \in (i + 1)..Len(seq) :
                         /\ seq[i] < seq[a]
                         /\ \A b \in (a + 1)..Len(seq) : ~(seq[i] < seq[b])
                 swapped == [seq EXCEPT ![i] = seq[j], ![j] = seq[i]]
             IN  [permutation |-> ReverseFrom(swapped, i + 1), more |-> TRUE]

\* BruteForce::set_cf
bf_set_cf(cf) ==
    /\ bf_pc \in {"constructed", "cf_set", "solved"}
    /\ bf_cf_' = cf
    /\ best_' = <<0, EmptyChromosome(cf.num_vars)>>
    /\ bf_pc' = "cf_set"
    /\ evaluations' = <<>>
    /\ UNCHANGED <<permutation, index, ga_vars>>

\* The comparison of solve that replaces the best so far.
Better(cost, best_cost) == cost > best_cost

\* BruteForce::solve, the call: the throw, or the locals before the loop.
bf_solve_call ==
    /\ bf_pc \in {"constructed", "cf_set", "solved"}
    /\ IF bf_cf_ = nullptr
       THEN /\ thrown' = "invalid_argument"
            /\ bf_pc' = "terminated"
            /\ UNCHANGED <<permutation, index>>
       ELSE /\ permutation' = EmptyChromosome(bf_cf_.num_vars)
            /\ index' = bf_cf_.num_vars
            /\ bf_pc' = "for"
            /\ UNCHANGED thrown
    /\ evaluations' = <<>>
    /\ UNCHANGED <<bf_cf_, best_, ga_members, num_generations, ga_locals, pc,
                   call, returned, ga_history>>

\* for (index = num_genes; index > 0; --index): permutation[index-1] = In,
\* or the return.
bf_for ==
    /\ bf_pc = "for"
    /\ IF index > 0
       THEN /\ permutation' = [permutation EXCEPT ![index] = In]
            /\ bf_pc' = "do"
            /\ UNCHANGED index
       ELSE /\ bf_pc' = "solved"
            /\ permutation' = <<>>
            /\ UNCHANGED index
    /\ UNCHANGED <<bf_cf_, best_, evaluations, ga_vars>>

\* One pass of the do-while: eval, the comparison, next_permutation; when
\* that returns false, --index.
bf_do ==
    /\ bf_pc = "do"
    /\ LET cost == eval(bf_cf_, permutation)
           next == NextPermutation(permutation)
       IN  /\ best_' = IF Better(cost, best_[1])
                       THEN <<cost, permutation>>
                       ELSE best_
           /\ evaluations' = Append(evaluations, permutation)
           /\ permutation' = next.permutation
           /\ IF next.more
              THEN UNCHANGED <<index, bf_pc>>
              ELSE /\ index' = index - 1
                   /\ bf_pc' = "for"
    /\ UNCHANGED <<bf_cf_, ga_vars>>

(***************************************************************************)
(* The solver on every cost function of a bounded family, as              *)
(* ProjectTester::bf_solve drives it (ProjectTester.cpp 96-102): set_cf,   *)
(* then solve.  set_cf overwrites both members, so a later set_cf starts   *)
(* from the same state as the first.                                       *)
(***************************************************************************)
MaxBFVars == 2
MaxCost == 1

\* Every deterministic cost function with values 0 .. MaxCost.
BFCostFunctions ==
    UNION {{TableCF(n, table) : table \in [Chromosomes(n) -> 0..MaxCost]} :
           n \in 0..MaxBFVars}

NextBF ==
    \/ /\ bf_pc = "constructed"
       /\ \E cf \in BFCostFunctions : bf_set_cf(cf)
    \/ bf_solve_call
    \/ bf_for
    \/ bf_do

SpecBF == Init /\ [][NextBF]_vars

\* The largest cost over all chromosomes.
MaxEval(cf) ==
    CHOOSE cost \in {eval(cf, c) : c \in Chromosomes(cf.num_vars)} :
        \A c \in Chromosomes(cf.num_vars) : eval(cf, c) <= cost

\* C10: after set_cf and solve, the retained cost is the maximum of eval
\* over all 2^n chromosomes and it is the cost of the retained chromosome.
C10_BruteForceExact ==
    bf_pc = "solved" =>
        /\ best_[1] = MaxEval(bf_cf_)
        /\ eval(bf_cf_, best_[2]) = best_[1]

\* C11: one call of solve hands every one of the 2^n chromosomes to eval
\* exactly once.
C11_EveryChromosomeOnce ==
    bf_pc = "solved" =>
        \A c \in Chromosomes(bf_cf_.num_vars) :
            Cardinality({e \in 1..Len(evaluations) : evaluations[e] = c}) = 1

(***************************************************************************)
(* Knapsack::greedy_solve (Knapsack.cpp 54-77)                             *)
(***************************************************************************)
\* The key of the comparator of the sort: price / weight in size_t.
Ratio(config) == config[2] \div config[1]

\* The sort calls the comparator on a configuration of weight 0: with two
\* or more elements std::sort compares every element, and the size_t
\* division by zero is undefined behaviour.
DividesByZero(cf) ==
    /\ Len(cf.configurations_) >= 2
    /\ \E i \in 1..Len(cf.configurations_) : cf.configurations_[i][1] = 0

\* The outcomes of the std::sort of the copy of the configurations, as the
\* positions the sorted elements came from: no pair is out of order, and
\* the order of elements of equal ratio is unspecified.  After a division
\* by zero that did not abort the process the order is any order.
GreedyOrders(cf) ==
    IF DividesByZero(cf)
    THEN Permutations(1..Len(cf.configurations_))
    ELSE {order \in Permutations(1..Len(cf.configurations_)) :
             \A k \in 1..(Len(cf.configurations_) - 1) :
                 ~(Ratio(cf.configurations_[order[k + 1]])
                     > Ratio(cf.configurations_[order[k]]))}

\* configs_copy after the sort.
SortedCopy(cf, order) ==
    [k \in 1..Len(order) |-> cf.configurations_[order[k]]]

\* std::distance(cbegin, std::find(cbegin, cend, config)): the first
\* position that holds an equal configuration.
FirstEqual(cf, config) ==
    CHOOSE i \in 1..Len(cf.configurations_) :
        /\ cf.configurations_[i] = config
        /\ \A j \in 1..(i - 1) : cf.configurations_[j] # config

\* greedy_solve with an item taken whether it fits or not.
GreedyFitsAlways(cf, current_weight, num_items, weight) == TRUE

\* The test of the loop: the item fits.
GreedyFits(cf, current_weight, num_items, weight) ==
    /\ current_weight + weight <= cf.max_weight_
    /\ num_items + 1 <= cf.num_items_

RECURSIVE GreedyFill(_, _, _, _, _, _, _)
\* The loop over the sorted copy from its k-th element on.
GreedyFill(cf, order, k, current_weight, num_items, cost, backpack) ==
    IF k > Len(order) THEN <<cost, backpack>>
    ELSE LET config == cf.configurations_[order[k]]
             weight == config[1]
             price == config[2]
         IN  IF GreedyFits(cf, current_weight, num_items, weight)
             THEN GreedyFill(cf, order, k + 1, current_weight + weight,
                             num_items + 1, cost + price,
                             [backpack EXCEPT ![FirstEqual(cf, config)] = In])
             ELSE GreedyFill(cf, order, k + 1, current_weight, num_items,
                             cost, backpack)

\* The pair greedy_solve returns for one outcome of the sort.
GreedySolve(cf, order) ==
    GreedyFill(cf, order, 1, 0, 0, 0,
               EmptyChromosome(Len(cf.configurations_)))

(***************************************************************************)
(* A knapsack instance of a bounded family under the direct calls of the   *)
(* drivers: eval of one chromosome, or greedy_solve and then the brute     *)
(* force (ProjectTester.cpp 89-93).  The solver holds the instance.        *)
(***************************************************************************)
MaxItems == 2
MaxPrice == 2

KnapsackInstances ==
    UNION {{Knapsack(n, max_weight, num_items, configurations) :
               max_weight \in 0..MaxCapacity,
               num_items \in 1..n,
               configurations \in
                   [1..n -> (1..MaxWeight) \X (1..MaxPrice)]} :
           n \in 1..MaxItems}

\* const auto& [weight, price] = configurations_[index] for every In gene:
\* every index read is inside the list.
ReadsInside(cf, chromosome) ==
    \A gene_no \in 1..Len(chromosome) :
        chromosome[gene_no] = In => gene_no <= Len(cf.configurations_)

\* cf.eval(chromosome), called on the instance.  A read past the end of
\* configurations_ is undefined behaviour: the sums are any values, or the
\* process is aborted.
knapsack_eval(chromosome) ==
    \/ /\ \E value \in IF ReadsInside(bf_cf_, chromosome)
                        THEN {eval(bf_cf_, chromosome)}
                        ELSE 0..MaxGarbage :
             returned' = <<"eval", chromosome, value>>
       /\ UNCHANGED <<ga_members, num_generations, ga_locals, pc, call,
                      thrown, ga_history, bf_vars>>
    \/ /\ ~ReadsInside(bf_cf_, chromosome)
       /\ bf_pc' = "crashed"
       /\ returned' = NoValue
       /\ UNCHANGED <<ga_members, num_generations, ga_locals, pc, call,
                      thrown, ga_history, bf_cf_, best_, permutation, index,
                      evaluations>>

\* knapsack.greedy_solve(), called on the instance.
\* The fourth component is configs_copy as the loop went through it.  A
\* division by zero in the comparator ends the call in any order of the
\* copy, or aborts the process.
greedy_solve ==
    \/ /\ \E order \in GreedyOrders(bf_cf_) :
             LET solution == GreedySolve(bf_cf_, order)
             IN  returned' = <<"greedy_solve", solution[1], solution[2],
                               SortedCopy(bf_cf_, order)>>
       /\ UNCHANGED <<ga_members, num_generations, ga_locals, pc, call,
                      thrown, ga_history, bf_vars>>
    \/ /\ DividesByZero(bf_cf_)
       /\ bf_pc' = "crashed"
       /\ returned' = NoValue
       /\ UNCHANGED <<ga_members, num_generations, ga_locals, pc, call,
                      thrown, ga_history, bf_cf_, best_, permutation, index,
                      evaluations>>

NextKnapsack ==
    \/ /\ bf_pc = "constructed"
       /\ \E cf \in KnapsackInstances : bf_set_cf(cf)
    \/ /\ bf_pc = "cf_set"
       /\ returned = NoValue
       /\ \E chromosome \in Chromosomes(bf_cf_.num_vars) :
             knapsack_eval(chromosome)
    \/ /\ bf_pc = "cf_set"
       /\ returned = NoValue
       /\ greedy_solve
    \/ /\ bf_pc = "cf_set"
       /\ returned # NoValue
       /\ returned[1] = "greedy_solve"
       /\ bf_solve_call
    \/ bf_for
    \/ bf_do

SpecKnapsack == Init /\ [][NextKnapsack]_vars

(***************************************************************************)
(* Properties of the knapsack (SpecKnapsack)                               *)
(***************************************************************************)
\* The positions of a chromosome that hold In.
InGenes(chromosome) == {i \in 1..Len(chromosome) : chromosome[i] = In}

RECURSIVE Total(_, _, _)
\* The sum of component k (1 = weight, 2 = price) of the configurations at
\* the positions in the set.
Total(cf, positions, k) ==
    IF positions = {} THEN 0
    ELSE LET i == CHOOSE p \in positions : TRUE
         IN  cf.configurations_[i][k] + Total(cf, positions \ {i}, k)

\* The In genes of the chromosome fit the capacity and the item cap.
Feasible(cf, chromosome) ==
    /\ Total(cf, InGenes(chromosome), 1) <= cf.max_weight_
    /\ Cardinality(InGenes(chromosome)) <= cf.num_items_

\* C12: eval returns 0 when the weight of the In genes exceeds the capacity
\* or their number exceeds the item cap, and the sum of their prices
\* otherwise; the instance is the same after the call.
C12_KnapsackEval ==
    /\ [](returned # NoValue /\ returned[1] = "eval" =>
            returned[3] = IF Feasible(bf_cf_, returned[2])
                          THEN Total(bf_cf_, InGenes(returned[2]), 2)
                          ELSE 0)
    /\ [][returned' # NoValue /\ returned'[1] = "eval" =>
            bf_cf_' = bf_cf_]_vars

\* eval returned 0 for a chromosome within the capacity whose number of In
\* genes exceeds the item cap.
C12_Witness ==
    /\ returned # NoValue
    /\ returned[1] = "eval"
    /\ returned[3] = 0
    /\ Total(bf_cf_, InGenes(returned[2]), 1) <= bf_cf_.max_weight_
    /\ Cardinality(InGenes(returned[2])) > bf_cf_.num_items_

\* C13: the chromosome greedy_solve returns is within the capacity and the
\* item cap, and the cost it returns is at most the cost the brute force
\* finds on the same instance.
C13_GreedyFeasibleAndBounded ==
    (bf_pc = "solved" /\ returned # NoValue /\ returned[1] = "greedy_solve")
        => /\ Feasible(bf_cf_, returned[3])
           /\ returned[2] <= best_[1]

\* greedy_solve left an item out and returned less than the brute force
\* found.
C13_Witness ==
    /\ bf_pc = "solved"
    /\ returned # NoValue
    /\ returned[1] = "greedy_solve"
    /\ InGenes(returned[3]) # {}
    /\ returned[2] < best_[1]

(***************************************************************************)
(* Further properties of a run (Spec)                                      *)
(***************************************************************************)
\* C14: after new_population(g) with g >= 1, get_solution_generation
\* returns the smallest index of best_costs_ that holds what get_best_cost
\* returns, the last entry; the index is below the length of best_costs_.
C14_SolutionGeneration ==
    (pc = "queried" /\ returned[1] = "get_solution_generation"
                    /\ num_generations >= 1) =>
        /\ returned[2] < Len(best_costs_)
        /\ best_costs_[returned[2] + 1] = best_costs_[Len(best_costs_)]
        /\ \A i \in 1..returned[2] :
              best_costs_[i] # best_costs_[Len(best_costs_)]

\* The best cost is found in the history before its last entry.
C14_Witness ==
    /\ pc = "queried"
    /\ returned[1] = "get_solution_generation"
    /\ Len(best_costs_) >= 2
    /\ returned[2] < Len(best_costs_) - 1

\* C16: after a successful set_parameters and after every completed
\* generation, costs_[i] is the cost function's value of population_[i] for
\* every identifier i, those of the elite included, whether or not a
\* chromosome was repaired.
C16_CostTableInSync ==
    (pc \in {"configured", "evolved"} \/ GenerationCompleted) =>
        /\ DOMAIN costs_ = DOMAIN population_
        /\ \A i \in DOMAIN population_ : costs_[i] = eval(cf_, population_[i])

\* A generation with an elite chromosome ends after a repair.
C16_Witness ==
    /\ GenerationCompleted
    /\ num_elite_ >= 1
    /\ repaired # {}

\* C18: after a successful set_parameters and after every completed
\* generation, every chromosome of the population has a total weight within
\* the capacity and a number of In genes within the item cap.
C18_PopulationFeasible ==
    (pc \in {"configured", "evolved"} \/ GenerationCompleted) =>
        \A i \in DOMAIN population_ : Feasible(cf_, population_[i])

\* A generation without elite has ended after the repair of a child, for a
\* cost function that has infeasible chromosomes.
C18_Witness ==
    /\ GenerationCompleted
    /\ num_elite_ = 0
    /\ repaired # {}
    /\ \E chromosome \in Chromosomes(chromosome_size_) :
          ~Feasible(cf_, chromosome)

\* C27: with num_elite_ >= 1 the best-cost history is a non-decreasing
\* sequence, and the cost at rank 0 after a generation is at least the
\* cost stored at the start of that generation.
C27_BestCostMonotone ==
    num_elite_ >= 1 =>
        /\ \A i \in 1..(Len(best_costs_) - 1) :
              best_costs_[i] <= best_costs_[i + 1]
        /\ (pc \in {"while", "evolved"} /\ best_costs_ # <<>>) =>
              best_costs_[Len(best_costs_)] <= costs_[ranks_[1]]

\* With an elite chromosome, the cost at rank 0 has risen from one
\* generation to the next.
C27_Witness ==
    /\ num_elite_ >= 1
    /\ Len(best_costs_) >= 2
    /\ best_costs_[1] < best_costs_[2]

(***************************************************************************)
(* GA::cross_ on chromosomes of every length of a bounded family: one      *)
(* generation of a population of two chromosomes without elite.            *)
(***************************************************************************)
MaxLength == 3

\* Instances in which every item has weight 1 and all of them fit, with
\* every choice of prices: chromosomes of equal and of different costs.
CrossInstances ==
    UNION {{Knapsack(n, n, n, configurations) :
               configurations \in [1..n -> {1} \X (1..MaxPrice)]} :
           n \in 1..MaxLength}

NextCross ==
    \/ /\ pc = "constructed"
       /\ \E cf \in CrossInstances : set_cf(cf)
    \/ /\ pc = "cf_set"
       /\ set_parameters(2, 0, 1, 0)
    \/ /\ pc = "configured"
       /\ new_population_call(1)
    \/ while_test
    \/ for_test
    \/ no_clones
    \/ mutate_
    \/ calculate_costs_
    \/ repair_

SpecCross == Init /\ [][NextCross]_vars

\* The step of no_clones that places the child of two distinct parents.
ChildPlaced == pc = "no_clones" /\ parent1 # parent2 /\ pc' = "for"

\* The child placed by the step.
PlacedChild == new_population'[ranks_[rank + 1]]

\* The parent with the higher recorded cost, the first one on a tie, and
\* the other parent.
HigherCostParent == IF costs_[parent2] > costs_[parent1] THEN parent2
                    ELSE parent1
LowerCostParent == IF costs_[parent2] > costs_[parent1] THEN parent1
                   ELSE parent2

\* The child has the length of the parents, parent 1's genes at the first
\* front positions and parent 2's genes at the others.
SplitAt(front) ==
    /\ Len(PlacedChild) = chromosome_size_
    /\ \A i \in 1..chromosome_size_ :
          PlacedChild[i] = IF i <= front
                           THEN population_[HigherCostParent][i]
                           ELSE population_[LowerCostParent][i]

\* C19 as stated: the first ceil((L+1)/2) genes of the child are those of
\* the parent with the higher cost and the remaining genes those of the
\* other parent.  ceil((L+1)/2) is (L + 2) \div 2.
C19_SplitAtCeilOfHalfLengthPlusOne ==
    [][ChildPlaced => SplitAt((chromosome_size_ + 2) \div 2)]_vars

\* C19 amended: the first ceil(L/2) genes of the child, which is
\* (L + 1) \div 2, are those of the parent with the higher cost and the
\* remaining genes those of the other parent; the child is a function of
\* the parents and their costs.
C19_SplitAtCeilOfHalfLength ==
    [][ChildPlaced => SplitAt((chromosome_size_ + 1) \div 2)]_vars

\* A child of even length has just been placed that is none of the
\* chromosomes of the population it was bred from.
C19_Witness ==
    /\ pc = "for"
    /\ generation >= 1
    /\ rank > num_elite_
    /\ chromosome_size_ % 2 = 0
    /\ \A i \in DOMAIN population_ :
          new_population[ranks_[rank]] # population_[i]

\* The front segment of one chromosome followed by the back segment of
\* another.
FrontAndBack(front, back) ==
    SubSeq(population_[front], 1, (chromosome_size_ + 1) \div 2)
        \o SubSeq(population_[back], (chromosome_size_ + 1) \div 2 + 1,
                  chromosome_size_)

\* C20: when the cost of the second parent passed to cross_ is not strictly
\* higher than that of the first, on equal costs in particular, the first
\* parent supplies the front segment of the child and the second the rest.
C20_FirstParentKeptOnTie ==
    [][(ChildPlaced /\ costs_[parent2] <= costs_[parent1]) =>
          PlacedChild = FrontAndBack(parent1, parent2)]_vars

\* The two chromosomes of the population have equal costs, and the child
\* just placed is the front of one and the back of the other but not the
\* other way round.
C20_Witness ==
    /\ pc = "for"
    /\ generation >= 1
    /\ rank > num_elite_
    /\ population_size_ = 2
    /\ \E i, j \in DOMAIN population_ :
          /\ i # j
          /\ costs_[i] = costs_[j]
          /\ new_population[ranks_[rank]] = FrontAndBack(i, j)
          /\ new_population[ranks_[rank]] # FrontAndBack(j, i)

\* C21: whenever a child is placed at a non-elite rank, the two parent
\* identifiers passed to cross_ are different.
C21_DistinctParents ==
    [][(pc = "no_clones" /\ rank' = rank + 1) =>
          /\ parent1 # parent2
          /\ rank >= num_elite_
          /\ rank < population_size_]_vars

\* Two different parents are about to be crossed for a non-elite rank of a
\* population that has an elite.
C21_Witness ==
    /\ pc = "no_clones"
    /\ parent1 # parent2
    /\ num_elite_ >= 1
    /\ rank >= num_elite_

(***************************************************************************)
(* GA::select_ on tournaments of several draws: one generation of a        *)
(* population of three chromosomes with one elite.                         *)
(***************************************************************************)
MaxDraws == 3

NextSelect ==
    \/ /\ pc = "constructed"
       /\ \E cf \in DriverCFs : set_cf(cf)
    \/ /\ pc = "cf_set"
       /\ \E t_size \in 1..MaxDraws : set_parameters(3, 1, t_size, 0)
    \/ /\ pc = "configured"
       /\ new_population_call(1)
    \/ while_test
    \/ for_test
    \/ no_clones
    \/ mutate_
    \/ calculate_costs_
    \/ repair_

SpecSelect == Init /\ [][NextSelect]_vars

\* C22: where the for loop is about to select parents, for every sequence
\* of tournament_size_ draws from 0..population_size_-1, select_ returns an
\* identifier that was drawn, whose recorded cost is at least that of every
\* drawn identifier, and every identifier drawn before its first draw has
\* a strictly lower cost.
C22_TournamentWinner ==
    (pc = "for" /\ rank < population_size_) =>
        \A participants \in Tournaments :
            \E k \in 1..tournament_size_ :
                /\ participants[k] = select_(participants)
                /\ \A j \in 1..tournament_size_ :
                      costs_[participants[j]] <= costs_[participants[k]]
                /\ \A j \in 1..(k - 1) :
                      costs_[participants[j]] < costs_[participants[k]]

\* The first parent is the elite chromosome, the winner of a tournament in
\* which a different identifier of the same cost was drawn after it.
C22_Witness ==
    /\ pc = "no_clones"
    /\ num_elite_ = 1
    /\ parent1 = ranks_[1]
    /\ \E participants \in Tournaments :
          /\ select_(participants) = parent1
          /\ \E j, k \in 1..tournament_size_ :
                /\ j < k
                /\ participants[j] = parent1
                /\ participants[k] # parent1
                /\ costs_[participants[k]] = costs_[parent1]

\* C23: from the start of a generation until the swap, population_, costs_
\* and ranks_ stay as they were at the start; every child placed is the
\* crossover of two chromosomes of population_, ordered by costs_, and goes
\* to the buffer only; population_ changes in the loop only by the swap,
\* once every rank from num_elite_ on has been filled, and becomes the
\* buffer.
C23_GenerationBuffered ==
    [][/\ (pc \in {"while", "for", "no_clones"}
                /\ pc' \in {"for", "no_clones"}) =>
              UNCHANGED <<population_, costs_, ranks_>>
       /\ ChildPlaced =>
              /\ PlacedChild =
                     FrontAndBack(HigherCostParent, LowerCostParent)
              /\ \A i \in DOMAIN new_population :
                    i # ranks_[rank + 1] =>
                        new_population'[i] = new_population[i]
       /\ (pc \in {"while", "for", "no_clones"}
                /\ population_' # population_) =>
              /\ pc = "for"
              /\ rank = population_size_
              /\ population_' = new_population
              /\ costs_' = costs_]_vars

\* Every non-elite rank has been filled, the swap is next, and two children
\* differ from the chromosomes they replace.
C23_Witness ==
    /\ pc = "for"
    /\ rank = population_size_
    /\ \E i, j \in DOMAIN population_ :
          /\ i # j
          /\ new_population[i] # population_[i]
          /\ new_population[j] # population_[j]

(***************************************************************************)
(* Further properties of the knapsack instance (SpecKnapsack)              *)
(***************************************************************************)
\* C24: the value greedy_solve returns is eval of the chromosome it
\* returns, for instances with two equal configurations as well.
C24_GreedyValueIsEvalOfBackpack ==
    (returned # NoValue /\ returned[1] = "greedy_solve") =>
        returned[2] = eval(bf_cf_, returned[3])

(***************************************************************************)
(* Knapsack::greedy_solve on instances with weights and prices from 0      *)
(***************************************************************************)
MaxValue == 3

\* The instances the constructor and add_config build from non-negative
\* weights and prices.  The order in which greedy_solve considers the
\* items depends on the configurations alone: the capacity and the item
\* cap are fixed.
GreedyInstances ==
    UNION {{Knapsack(n, MaxCapacity, n, configurations) :
               configurations \in
                   [1..n -> (0..MaxWeight) \X (0..MaxValue)]} :
           n \in 1..MaxItems}

NextGreedy ==
    \/ /\ bf_pc = "constructed"
       /\ \E cf \in GreedyInstances : bf_set_cf(cf)
    \/ /\ bf_pc = "cf_set"
       /\ returned = NoValue
       /\ greedy_solve

SpecGreedy == Init /\ [][NextGreedy]_vars

\* C25: greedy_solve returns for every instance of non-negative weights,
\* weight 0 included, and whenever it considers item a before item b,
\* value_a * weight_b >= value_b * weight_a.
C25_GreedyOrderByExactRatio ==
    /\ bf_pc # "crashed"
    /\ (returned # NoValue /\ returned[1] = "greedy_solve") =>
          \A k, l \in 1..Len(returned[4]) :
              k < l => returned[4][k][2] * returned[4][l][1]
                          >= returned[4][l][2] * returned[4][k][1]

(***************************************************************************)
(* set_cf between the other calls: a cost function is bound before and     *)
(* after set_parameters and after a run.                                   *)
(***************************************************************************)
NextRebind ==
    \/ /\ pc \in {"constructed", "cf_set", "configured", "evolved"}
       /\ \E cf \in DriverCFs : set_cf(cf)
    \/ /\ pc = "cf_set"
       /\ set_parameters(2, 0, 1, 0)
    \/ /\ pc = "configured"
       /\ new_population_call(1)
    \/ while_test
    \/ for_test
    \/ no_clones
    \/ mutate_
    \/ calculate_costs_
    \/ repair_

SpecRebind == Init /\ [][NextRebind]_vars

\* C26: in every state every chromosome of the population has the length
\* num_vars() of the bound cost function, which is the chromosome length
\* chromosome_size_ that cross_ and mutate_ use.
C26_ChromosomeLength ==
    \A i \in DOMAIN population_ :
        /\ Len(population_[i]) = cf_.num_vars
        /\ Len(population_[i]) = chromosome_size_

(***************************************************************************)
(* Knapsack::Knapsack and Knapsack::random_configs (Knapsack.cpp 8-22):    *)
(* an instance is constructed, filled at random and handed to a solver,    *)
(* and chromosomes of num_vars() genes are evaluated on it.                *)
(***************************************************************************)
\* The upper end of dist_: max(1, max_weight * 3 / num_items).
DistMax(max_weight, num_items) ==
    IF (max_weight * 3) \div num_items > 1
    THEN (max_weight * 3) \div num_items
    ELSE 1

\* random_configs(): while (++item_no <= num_items_) add_config(drawn
\* weight, drawn price).
random_configs(cf, drawn) ==
    [cf EXCEPT !.configurations_ = @ \o drawn]

\* Knapsack cf(num_configurations, max_weight, num_items);
\* cf.random_configs(); and the instance is given to the solver.  With
\* num_items = 0 the constructor divides by zero, undefined behaviour: the
\* process is aborted, or dist_ gets some range, which no draw uses.
knapsack_construct(num_configurations, max_weight, num_items) ==
    IF num_items = 0
    THEN \/ bf_set_cf(Knapsack(num_configurations, max_weight, 0, <<>>))
         \/ /\ bf_pc \in {"constructed", "cf_set", "solved"}
            /\ bf_pc' = "crashed"
            /\ UNCHANGED <<bf_cf_, best_, permutation, index, evaluations,
                           ga_vars>>
    ELSE \E drawn \in [1..num_items ->
                          (1..DistMax(max_weight, num_items))
                              \X (1..DistMax(max_weight, num_items))] :
             bf_set_cf(random_configs(
                 Knapsack(num_configurations, max_weight, num_items, <<>>),
                 drawn))

NextShape ==
    \/ /\ bf_pc = "constructed"
       /\ \E num_configurations \in 1..MaxItems, max_weight \in 0..MaxWeight,
            num_items \in 0..MaxItems :
             knapsack_construct(num_configurations, max_weight, num_items)
    \/ /\ bf_pc = "cf_set"
       /\ returned = NoValue
       /\ \E chromosome \in Chromosomes(bf_cf_.num_vars) :
             knapsack_eval(chromosome)

SpecShape == Init /\ [][NextShape]_vars

\* C28: after the constructor and one random_configs, for every
\* num_configurations and num_items, the instance holds num_vars()
\* configurations, and eval of a chromosome of num_vars() genes reads no
\* configuration past the end of the list.
C28_InstanceShape ==
    /\ bf_pc # "crashed"
    /\ bf_cf_ # nullptr =>
          Len(bf_cf_.configurations_) = bf_cf_.num_vars
    /\ (returned # NoValue /\ returned[1] = "eval") =>
          ReadsInside(bf_cf_, returned[2])

(***************************************************************************)
(* Properties of configuration (SpecConfig)                                *)
(***************************************************************************)
\* C15: a set_cf call that throws for a cost function of zero variables
\* leaves the bound cost function and the chromosome length as they were
\* before the call.
C15_FailedSetCfChangesNothing ==
    [][(call'[1] = "set_cf" /\ thrown' = "invalid_argument") =>
          UNCHANGED <<cf_, chromosome_size_>>]_vars

====
